---- MODULE Spec2Model ----
(***************************************************************************)
(* Credential resolution of the authenticated registry client              *)
(* (pkg/oci/authn/client.go).                                              *)
(*                                                                         *)
(* NewClient makes an Options value, applies its options to it in order,   *)
(* builds the transport and returns a client whose credential callback is  *)
(* the closure Credential.  The HTTP client calls the closure from any     *)
(* number of goroutines, one call per outgoing request.                    *)
(* The model has one process per goroutine.  A call is cut where           *)
(* it touches the state the goroutines share, the map                      *)
(* opt.CredentialsFuncsCache: the lookup at the start of the call, the     *)
(* calls out of the closure (the cached function, or Login and the loop    *)
(* over the providers, which touch nothing shared), and the store into the *)
(* map.  The map is a plain Go map with no lock around it.  A store takes  *)
(* time (StoreBegin, Store), and what a lookup or a store that overlaps a  *)
(* store produces is a choice among the outcomes the Go runtime can        *)
(* produce: a fatal error, a lookup that sees the map before or after the  *)
(* store or misses the key, a store that is lost or that lands with the    *)
(* value of the other store.                                               *)
(*                                                                         *)
(* The initial states are the entries into NewClient: every list of at     *)
(* most MaxOptions options with at most MaxProviders provider options,     *)
(* the Options value just made, with an empty cache.                       *)
(***************************************************************************)
EXTENDS Integers, Sequences

\* ------------------------------------------------------------- bounds
MaxProcs == 2
MaxHosts == 2
MaxProviders == 3
MaxCalls == 3
MaxOptions == 4

Procs == 1..MaxProcs
Hosts == 1..MaxHosts

\* ------------------------------------------------------------- values
\* auth.EmptyCredential and the non-empty credentials of the scenarios.
EmptyCredential == "empty"
StaticCred == "u:p"
TokenCred == "T1"

\* error values; NilErr is Go's nil error.
NilErr == "nil"
ErrProvider == "disk read failed"
ErrLogin == "login failed"
ErrCanceled == "context canceled"

\* "no entry" result of the map lookup (exists = false).
NoFunc == 0

\* The credential functions the option functions append: WithCredentials
\* appends the static closure, the other options append a function that does
\* I/O for the host.
StaticKind == "static"
FuncKind == "func"
ProviderKinds == {StaticKind, FuncKind}

RECURSIVE SeqsUpTo(_, _)
SeqsUpTo(S, n) ==
    IF n = 0 THEN {<< >>}
    ELSE LET shorter == SeqsUpTo(S, n - 1)
         IN  shorter \cup {Append(s, x) : s \in {t \in shorter : Len(t) = n - 1}, x \in S}

VARIABLES
    CredentialsFuncs,        \* opt.CredentialsFuncs: the ordered provider list
    AutoLoginHandler,        \* opt.AutoLoginHandler # nil
    CredentialsFuncsCache,   \* opt.CredentialsFuncsCache: host -> index of the cached function, or NoFunc
    call,                    \* per goroutine: the frame of its Credential call
    succeeded,               \* history: host -> providers that returned a credential in a scan for it
    calls,                   \* history: the number of Credential calls made so far
    ret,                     \* the frame of the call that returned in the last step, if one did
    overlap,                 \* history: some access to the map has overlapped a store
    crashed,                 \* the runtime ended the program with a fatal error
    options,                 \* the options NewClient has still to apply, in order
    ClientTokenCache,        \* opt.ClientTokenCache
    Insecure,                \* opt.Insecure
    authClient,              \* the client NewClient returns, NoClient until it has returned
    concurrent               \* history: the hosts for which two calls have been in flight at once

config == <<CredentialsFuncs, AutoLoginHandler, ClientTokenCache, Insecure>>

vars == <<CredentialsFuncs, AutoLoginHandler, CredentialsFuncsCache, call, succeeded, calls, ret, overlap, crashed,
          options, ClientTokenCache, Insecure, authClient, concurrent>>

\* ------------------------------------------------------------- frames
Result(c, e) == [cred |-> c, err |-> e]

\* The frame of a goroutine that is not inside Credential.
IdleCall ==
    [pc |-> "idle", reg |-> 0, ctxDone |-> FALSE, credFunc |-> NoFunc, idx |-> 0,
     cred |-> EmptyCredential, err |-> NilErr,
     \* history of the call, read by the properties only
     invoked |-> << >>,       \* the providers invoked, in order
     results |-> << >>,       \* what each of them returned
     logins |-> 0,            \* the calls of Login
     loginErr |-> NilErr,     \* what Login returned
     writes |-> 0,            \* the stores into the map
     prior |-> {},            \* the providers via which calls for reg had succeeded
                              \* and returned when the call began
     raced |-> FALSE]         \* another store overlapped the store of the call

\* What the closure of WithCredentials returns: *cred, here the credential
\* "u:p", and a nil error, whatever the context.
StaticResults == {Result(StaticCred, NilErr)}

\* What the credential functions of the store, of OAuth and of GCP can
\* return: a credential or none, or an error; they may notice a done context.
FuncResults(ctxDone) ==
    {Result(c, e) : c \in {EmptyCredential, TokenCred}, e \in {NilErr, ErrProvider}}
    \cup (IF ctxDone THEN {Result(EmptyCredential, ErrCanceled)} ELSE {})

\* What a credential function of the list can return for a call.
ProviderResults(kind, ctxDone) ==
    IF kind = StaticKind THEN StaticResults ELSE FuncResults(ctxDone)

\* What AutoLoginHandler.Login can return.
LoginResults(ctxDone) ==
    {NilErr, ErrLogin} \cup (IF ctxDone THEN {ErrCanceled} ELSE {})

Writing(g) == call[g].pc = "writing"

\* ------------------------------------------------------------- the closure
\* return cred, err
Done(c, cred, err) == [c EXCEPT !.pc = "done", !.cred = cred, !.err = err]

\* The for statement over opt.CredentialsFuncs: an empty list falls through
\* to the final return.
EnterScan(c) ==
    IF Len(CredentialsFuncs) >= 1
    THEN [c EXCEPT !.pc = "scan", !.idx = 1]
    ELSE Done(c, EmptyCredential, NilErr)

\* NextProvider with a loop that steps over every other provider.
NextProviderSkip(c) ==
    IF c.idx + 1 < Len(CredentialsFuncs)
    THEN [c EXCEPT !.idx = c.idx + 2]
    ELSE Done(c, EmptyCredential, NilErr)

\* NextProvider with a final return that reports the missing credential as
\* an error.
NextProviderFail(c) ==
    IF c.idx < Len(CredentialsFuncs)
    THEN [c EXCEPT !.idx = c.idx + 1]
    ELSE Done(c, EmptyCredential, ErrProvider)

\* The next iteration of the loop, or the return after the loop.
NextProvider(c) ==
    IF c.idx < Len(CredentialsFuncs)
    THEN [c EXCEPT !.idx = c.idx + 1]
    ELSE Done(c, EmptyCredential, NilErr)

\* AfterProvider with the error of a provider taken as "no credential".
AfterProviderSkipError(c, r) ==
    IF r.err = NilErr /\ r.cred # EmptyCredential
    THEN [c EXCEPT !.pc = "store", !.cred = r.cred]
    ELSE NextProvider(c)

\* AfterProvider with the credential of a failed provider returned along
\* with its error.
AfterProviderKeepCred(c, r) ==
    IF r.err # NilErr THEN Done(c, r.cred, r.err)
    ELSE IF r.cred # EmptyCredential THEN [c EXCEPT !.pc = "store", !.cred = r.cred]
    ELSE NextProvider(c)

\* The body of the loop after credFunc(ctx, reg) returned r.
AfterProvider(c, r) ==
    IF r.err # NilErr THEN Done(c, EmptyCredential, r.err)
    ELSE IF r.cred # EmptyCredential THEN [c EXCEPT !.pc = "store", !.cred = r.cred]
    ELSE NextProvider(c)

\* AfterLogin with the providers tried whatever Login returned.
AfterLoginIgnoreError(c, e) == EnterScan(c)

\* After AutoLoginHandler.Login(ctx, reg) returned e.
AfterLogin(c, e) ==
    IF e # NilErr THEN Done(c, EmptyCredential, e) ELSE EnterScan(c)

\* AfterLookup with the auto-login step left out.
AfterLookupNoLogin(c, f) ==
    IF f # NoFunc THEN [c EXCEPT !.pc = "cached", !.credFunc = f] ELSE EnterScan(c)

\* After credFunc, exists := opt.CredentialsFuncsCache[reg] produced f.
AfterLookup(c, f) ==
    IF f # NoFunc THEN [c EXCEPT !.pc = "cached", !.credFunc = f]
    ELSE IF AutoLoginHandler THEN [c EXCEPT !.pc = "login"]
    ELSE EnterScan(c)

\* CachedReturn with the providers tried anew when the cached function has
\* no credential.
CachedReturnRescan(c, r) ==
    IF r.err = NilErr /\ r.cred # EmptyCredential THEN Done(c, r.cred, r.err) ELSE EnterScan(c)

\* return credFunc(ctx, reg) on the cached path.
CachedReturn(c, r) == Done(c, r.cred, r.err)

\* The history of the call after it invoked provider k and got r.
Invoked(c, k, r) ==
    [c EXCEPT !.invoked = Append(c.invoked, k), !.results = Append(c.results, r)]

\* The frames the next call out of the closure can lead to: the call of the
\* cached function, of Login, or of the provider the loop is at.
CallOut(c) ==
    IF c.pc = "cached"
    THEN {CachedReturn(Invoked(c, c.credFunc, r), r) :
             r \in ProviderResults(CredentialsFuncs[c.credFunc], c.ctxDone)}
    ELSE IF c.pc = "login"
    THEN {AfterLogin([c EXCEPT !.logins = c.logins + 1, !.loginErr = e], e) :
             e \in LoginResults(c.ctxDone)}
    ELSE {AfterProvider(Invoked(c, c.idx, r), r) :
             r \in ProviderResults(CredentialsFuncs[c.idx], c.ctxDone)}

\* The same, the context of the call being canceled (or its deadline passing)
\* at any moment before the call out: ctxDone is set exactly when a provider
\* or Login was invoked with a done context.
CallOutOrCancel(c) ==
    CallOut(c) \cup (IF c.ctxDone THEN {} ELSE CallOut([c EXCEPT !.ctxDone = TRUE]))

InCalls(c) == c.pc \in {"cached", "login", "scan"}

\* The frames in which the calls out of the closure can end: the call has
\* returned, or it is about to store the function into the map.  The calls
\* out touch nothing the other goroutines read.
RECURSIVE RunCalls(_)
RunCalls(c) ==
    IF InCalls(c) THEN UNION {RunCalls(d) : d \in CallOutOrCancel(c)} ELSE {c}

\* Some call for host h has a credential in hand and has not finished storing
\* its function into the map.
StorePending(h) == \E o \in Procs : call[o].pc \in {"store", "writing"} /\ call[o].reg = h

\* Some goroutine other than g is in the middle of a store into the map.
StoreInProgress(g) == \E o \in Procs \ {g} : Writing(o)

\* What the lookup of h by g can produce.  With no store in progress it is
\* the entry of h.  A lookup that overlaps a store can see the map before or
\* after that store, or miss the key.
LookupResults(g, h) ==
    {CredentialsFuncsCache[h]}
    \cup (IF StoreInProgress(g)
          THEN {NoFunc} \cup {call[o].idx : o \in {p \in Procs \ {g} : Writing(p) /\ call[p].reg = h}}
          ELSE {})

\* What opt.CredentialsFuncsCache[reg] = credFunc can leave under reg.  A store
\* that another store overlapped can be lost, or land with the value of a
\* store still in progress.
StoredValues(g) ==
    {call[g].idx}
    \cup (IF call[g].raced
          THEN {CredentialsFuncsCache[call[g].reg]}
               \cup {call[o].idx : o \in {p \in Procs \ {g} : Writing(p)}}
          ELSE {})

\* No call returned in the last step.
NoReturn == IdleCall

\* Goroutine g moves to frame d: a call that has returned hands its frame to
\* the caller and the goroutine is free for the next request.
Land(g, d) ==
    IF d.pc = "done"
    THEN call' = [call EXCEPT ![g] = IdleCall] /\ ret' = d
    ELSE call' = [call EXCEPT ![g] = d] /\ ret' = NoReturn

\* ------------------------------------------------------------- NewClient
\* The values of opt.ClientTokenCache: nil, or the cache given to
\* WithClientTokenCache.
NoCache == "nil"
TokenCache == "cache"

\* What NewClient has to return while it has not returned.
NoClient == [built |-> FALSE, InsecureSkipVerify |-> FALSE, Cache |-> NoCache]

\* The Options value as the option functions see it.
opt ==
    [CredentialsFuncs |-> CredentialsFuncs, AutoLoginHandler |-> AutoLoginHandler,
     ClientTokenCache |-> ClientTokenCache, Insecure |-> Insecure]

\* The option functions; each is the func(c *Options) its With... returns.
WithAutoLogin(c) == [c EXCEPT !.AutoLoginHandler = TRUE]

WithOAuthCredentials(c) == [c EXCEPT !.CredentialsFuncs = Append(@, FuncKind)]

WithGcpCredentials(c) == [c EXCEPT !.CredentialsFuncs = Append(@, FuncKind)]

\* WithCredentials with the new function put in front of the list.
WithCredentialsPrepend(c) == [c EXCEPT !.CredentialsFuncs = <<StaticKind>> \o @]

WithCredentials(c) == [c EXCEPT !.CredentialsFuncs = Append(@, StaticKind)]

WithStore(c) == [c EXCEPT !.CredentialsFuncs = Append(@, FuncKind)]

\* WithClientTokenCache that also turns the verification off.
WithClientTokenCacheInsecure(c) == [c EXCEPT !.ClientTokenCache = TokenCache, !.Insecure = TRUE]

WithClientTokenCache(c) == [c EXCEPT !.ClientTokenCache = TokenCache]

WithInsecure(c) == [c EXCEPT !.Insecure = TRUE]

ProviderOptions == {"WithOAuthCredentials", "WithGcpCredentials", "WithCredentials", "WithStore"}
OptionNames == ProviderOptions \cup {"WithAutoLogin", "WithClientTokenCache", "WithInsecure"}

\* o(opt) for the option named o.
ApplyTo(o, c) ==
    CASE o = "WithAutoLogin" -> WithAutoLogin(c)
      [] o = "WithOAuthCredentials" -> WithOAuthCredentials(c)
      [] o = "WithGcpCredentials" -> WithGcpCredentials(c)
      [] o = "WithCredentials" -> WithCredentials(c)
      [] o = "WithStore" -> WithStore(c)
      [] o = "WithClientTokenCache" -> WithClientTokenCache(c)
      [] o = "WithInsecure" -> WithInsecure(c)

\* The number of provider options in the list os.
RECURSIVE NumProviders(_)
NumProviders(os) ==
    IF os = << >> THEN 0
    ELSE (IF Head(os) \in ProviderOptions THEN 1 ELSE 0) + NumProviders(Tail(os))

\* The argument lists of NewClient.
OptionLists == {os \in SeqsUpTo(OptionNames, MaxOptions) : NumProviders(os) <= MaxProviders}

\* ------------------------------------------------------------- actions
\* NewClient has made opt, with an empty map, and has applied no option yet.
Init ==
    /\ options \in OptionLists
    /\ CredentialsFuncs = << >>
    /\ AutoLoginHandler = FALSE
    /\ ClientTokenCache = NoCache
    /\ Insecure = FALSE
    /\ authClient = NoClient
    /\ concurrent = {}
    /\ CredentialsFuncsCache = [h \in Hosts |-> NoFunc]
    /\ call = [g \in Procs |-> IdleCall]
    /\ succeeded = [h \in Hosts |-> {}]
    /\ calls = 0
    /\ ret = NoReturn
    /\ overlap = FALSE
    /\ crashed = FALSE

\* for _, o := range options { o(opt) }: one iteration.
ApplyOption ==
    /\ ~authClient.built
    /\ options # << >>
    /\ LET c == ApplyTo(Head(options), opt)
       IN  /\ CredentialsFuncs' = c.CredentialsFuncs
           /\ AutoLoginHandler' = c.AutoLoginHandler
           /\ ClientTokenCache' = c.ClientTokenCache
           /\ Insecure' = c.Insecure
    /\ options' = Tail(options)
    /\ UNCHANGED <<CredentialsFuncsCache, call, succeeded, calls, ret, overlap, crashed, authClient, concurrent>>

\* The rest of NewClient: the transport, with the verification of the
\* certificates off when opt.Insecure is set, and the client that is returned.
Build ==
    /\ ~authClient.built
    /\ options = << >>
    /\ authClient' = [built |-> TRUE, InsecureSkipVerify |-> Insecure, Cache |-> ClientTokenCache]
    /\ UNCHANGED <<config, CredentialsFuncsCache, call, succeeded, calls, ret, overlap, crashed, options, concurrent>>

\* The HTTP client calls Credential(ctx, reg) on goroutine g (the previous
\* call of g has returned): the lookup in the map and the tests after it.
Start(g, h) ==
    /\ authClient.built
    /\ ~crashed
    /\ call[g].pc = "idle"
    /\ calls < MaxCalls
    /\ calls' = calls + 1
    /\ overlap' = (overlap \/ StoreInProgress(g))
    /\ concurrent' = IF \E o \in Procs \ {g} : call[o].pc # "idle" /\ call[o].reg = h
                     THEN concurrent \cup {h}
                     ELSE concurrent
    /\ \E f \in LookupResults(g, h) :
           Land(g, AfterLookup([IdleCall EXCEPT
                                   !.reg = h,
                                   !.prior = IF StorePending(h) THEN {} ELSE succeeded[h]], f))
    /\ UNCHANGED <<config, options, authClient, CredentialsFuncsCache, succeeded, crashed>>

\* The calls out of the closure, up to its return or to the store: the cached
\* function, or Login and the loop over the providers.
Resolve(g) ==
    /\ ~crashed
    /\ InCalls(call[g])
    /\ \E d \in RunCalls(call[g]) :
           /\ Land(g, d)
           /\ succeeded' = IF d.pc = "store"
                           THEN [succeeded EXCEPT ![d.reg] = @ \cup {d.idx}]
                           ELSE succeeded
    /\ UNCHANGED <<config, options, authClient, CredentialsFuncsCache, calls, overlap, crashed, concurrent>>

\* opt.CredentialsFuncsCache[reg] = credFunc begins: the store and every
\* store in progress overlap.
StoreBegin(g) ==
    /\ ~crashed
    /\ call[g].pc = "store"
    /\ call' = [p \in Procs |->
                   IF p = g THEN [call[g] EXCEPT !.pc = "writing", !.raced = @ \/ StoreInProgress(g)]
                   ELSE IF Writing(p) THEN [call[p] EXCEPT !.raced = TRUE]
                   ELSE call[p]]
    /\ overlap' = (overlap \/ StoreInProgress(g))
    /\ ret' = NoReturn
    /\ UNCHANGED <<config, options, authClient, CredentialsFuncsCache, succeeded, calls, crashed, concurrent>>

\* Store that also moves the function it stores to the front of the provider
\* list.
StoreMoveToFront(g) ==
    /\ ~crashed
    /\ Writing(g)
    /\ LET c == call[g]
       IN  /\ CredentialsFuncsCache' = [CredentialsFuncsCache EXCEPT ![c.reg] = c.idx]
           /\ CredentialsFuncs' =
                  <<CredentialsFuncs[c.idx]>>
                  \o SubSeq(CredentialsFuncs, 1, c.idx - 1)
                  \o SubSeq(CredentialsFuncs, c.idx + 1, Len(CredentialsFuncs))
           /\ Land(g, Done([c EXCEPT !.writes = c.writes + 1], c.cred, NilErr))
    /\ UNCHANGED <<AutoLoginHandler, ClientTokenCache, Insecure, options, authClient,
                   succeeded, calls, overlap, crashed, concurrent>>

\* The store ends and the credential is returned.
Store(g) ==
    /\ ~crashed
    /\ Writing(g)
    /\ LET c == call[g]
       IN  \E v \in StoredValues(g) :
               /\ CredentialsFuncsCache' = [CredentialsFuncsCache EXCEPT ![c.reg] = v]
               /\ Land(g, Done([c EXCEPT !.writes = c.writes + 1], c.cred, NilErr))
    /\ UNCHANGED <<config, options, authClient, succeeded, calls, overlap, crashed, concurrent>>

\* The runtime notices a map access that overlaps a store and ends the
\* program ("fatal error: concurrent map read and map write", "concurrent
\* map writes").
FatalError(g) ==
    /\ ~crashed
    /\ \/ Writing(g) /\ call[g].raced
       \/ call[g].pc = "idle" /\ calls < MaxCalls /\ StoreInProgress(g)
    /\ crashed' = TRUE
    /\ ret' = NoReturn
    /\ UNCHANGED <<config, options, authClient, CredentialsFuncsCache, call, succeeded, calls, overlap, concurrent>>

Next ==
    \/ ApplyOption
    \/ Build
    \/ \E g \in Procs :
           \/ \E h \in Hosts : Start(g, h)
           \/ Resolve(g)
           \/ StoreBegin(g)
           \/ Store(g)
           \/ FatalError(g)

Spec == Init /\ [][Next]_vars

\* ------------------------------------------------------------- properties
\* A call returned in the last step; ret is its frame.
Returned == ret.pc = "done"

\* The frame is of a call that found no entry for its host.
Uncached(c) == c.credFunc = NoFunc

NoCredential == Result(EmptyCredential, NilErr)

\* C2 (P3 fail-fast): in a scan for an uncached host, a provider that returns
\* an error is the last provider the call invokes; the call returns that
\* error with the empty credential and stores nothing into the cache.
C2_FailFast ==
    (Returned /\ Uncached(ret)) =>
        \A k \in 1..Len(ret.results) :
            ret.results[k].err # NilErr =>
                /\ k = Len(ret.results)
                /\ Len(ret.invoked) = k
                /\ ret.err = ret.results[k].err
                /\ ret.cred = EmptyCredential
                /\ ret.writes = 0

\* A scan of three providers in which the second one fails.
C2_Witness ==
    /\ Returned /\ Uncached(ret)
    /\ Len(CredentialsFuncs) = 3
    /\ ret.invoked = <<1, 2>>
    /\ ret.results[2].err = ErrProvider
    /\ ret.err = ErrProvider

\* The providers a scan has invoked are 1..k, in this order, and all but the
\* last returned no credential and no error.
InOrder(c) ==
    /\ Len(c.invoked) <= Len(CredentialsFuncs)
    /\ Len(c.results) = Len(c.invoked)
    /\ \A j \in 1..Len(c.invoked) : c.invoked[j] = j
    /\ \A j \in 1..(Len(c.invoked) - 1) : c.results[j] = NoCredential

\* C3 (P2 order preservation): the providers one call invokes for an uncached
\* host are a prefix 1..k of the configured list, in the configured order,
\* none skipped or repeated, and the scan goes past a provider only when it
\* returned no credential; so it stops at the first credential.
C3_OrderPreserved ==
    /\ (Returned /\ Uncached(ret)) => InOrder(ret)
    /\ \A g \in Procs : (call[g].pc \in {"store", "writing"}) =>
           /\ InOrder(call[g])
           /\ call[g].idx = Len(call[g].invoked)

\* Provider 1 returned no credential, provider 2 a credential, and provider 3
\* was not invoked.
C3_Witness ==
    /\ Returned /\ Uncached(ret)
    /\ Len(CredentialsFuncs) = 3
    /\ ret.invoked = <<1, 2>>
    /\ ret.results[1] = NoCredential
    /\ ret.results[2].cred # EmptyCredential /\ ret.results[2].err = NilErr
    /\ ret.cred = ret.results[2].cred

\* C4 (P5 auto-login gating): a call whose Login failed returns the error of
\* Login with the empty credential, has invoked no provider and has stored
\* nothing into the cache.
C4_LoginGating ==
    (Returned /\ ret.logins > 0 /\ ret.loginErr # NilErr) =>
        /\ Uncached(ret)
        /\ ret.err = ret.loginErr
        /\ ret.cred = EmptyCredential
        /\ ret.invoked = << >>
        /\ ret.writes = 0

\* Login failed while providers were configured.
C4_Witness ==
    /\ Returned /\ AutoLoginHandler
    /\ ret.logins = 1 /\ ret.loginErr = ErrLogin
    /\ Len(CredentialsFuncs) >= 1

\* C10 (P4 anonymous fallback): a call for an uncached host whose Login (if
\* any) succeeded and in which every configured provider returned the empty
\* credential and no error returns the empty credential and a nil error and
\* stores nothing; so does a call with an empty provider list.
C10_AnonymousFallback ==
    (/\ Returned /\ Uncached(ret)
     /\ ret.loginErr = NilErr
     /\ Len(ret.invoked) = Len(CredentialsFuncs)
     /\ \A k \in 1..Len(ret.results) : ret.results[k] = NoCredential) =>
        /\ ret.cred = EmptyCredential
        /\ ret.err = NilErr
        /\ ret.writes = 0

\* Login succeeded and each of three providers returned no credential.
C10_Witness ==
    /\ Returned /\ Uncached(ret)
    /\ ret.logins = 1 /\ ret.loginErr = NilErr
    /\ Len(CredentialsFuncs) = 3
    /\ ret.invoked = <<1, 2, 3>>
    /\ \A k \in 1..3 : ret.results[k] = NoCredential
    /\ ret.err = NilErr

\* Goroutine g begins a call in this step, and the call does not return in
\* the same step.
Begins(g) == calls' = calls + 1 /\ call'[g] # call[g]

\* The functions the stores in progress are writing under host h.
InFlight(h) == {call[o].idx : o \in {p \in Procs : Writing(p) /\ call[p].reg = h}}

\* C1 (P1 cache short-circuit): once calls for host h have succeeded via
\* provider i and returned, a later call for h invokes provider i only.  The
\* statement is for the executions in which no access to the map has
\* overlapped a store, so that every lookup and every store took effect as
\* written.
C1_CacheShortCircuit ==
    (Returned /\ ~overlap) => \A i \in ret.prior : ret.invoked = <<i>>

\* C5 (P6 concurrency safety): the accesses to the cache map are serialized:
\* no two stores into the map are in progress at once, and no lookup is made
\* while a store is in progress.
C5_SerializedAccess ==
    [][/\ \A g \in Procs : \A o \in Procs \ {g} : ~(Writing(g)' /\ Writing(o)')
       /\ (calls' = calls + 1) => ~(\E o \in Procs : Writing(o))]_vars

\* C6 (cached-hit path): a call for a host that has a cache entry when the
\* call begins takes the cached path with the function of the entry (or of a
\* store under that host in progress); a call on the cached path invokes that
\* function once, calls no Login, stores nothing and returns what the
\* function returned.
C6_CachedHit ==
    [][/\ \A g \in Procs :
             (Begins(g) /\ CredentialsFuncsCache[call'[g].reg] # NoFunc) =>
                 /\ call'[g].pc = "cached"
                 /\ call'[g].credFunc \in
                        {CredentialsFuncsCache[call'[g].reg]} \cup InFlight(call'[g].reg)
       /\ (Returned' /\ ~Uncached(ret')) =>
             /\ ret'.invoked = <<ret'.credFunc>>
             /\ ret'.logins = 0 /\ ret'.writes = 0
             /\ Result(ret'.cred, ret'.err) = ret'.results[1]]_vars

\* C7 (cache invariant): every entry of the cache maps its host to a provider
\* of the list that returned a credential and no error in a scan for that
\* host, and an entry, once there, stays.
C7_CacheInvariant ==
    [][\A h \in Hosts :
          /\ CredentialsFuncsCache'[h] # NoFunc =>
                 CredentialsFuncsCache'[h] \in succeeded'[h]
          /\ CredentialsFuncsCache[h] # NoFunc => CredentialsFuncsCache'[h] # NoFunc]_vars

\* C8 (cancellation), for the closure of WithCredentials: a call that invoked
\* it with a done context returns the cancellation error and no credential.
C8_Cancellation ==
    (/\ Returned /\ ret.ctxDone /\ ret.logins = 0
     /\ ret.invoked # << >>
     /\ \A k \in 1..Len(ret.invoked) : CredentialsFuncs[ret.invoked[k]] = StaticKind) =>
        /\ ret.err = ErrCanceled
        /\ ret.cred = EmptyCredential

\* C9 (scan success): a scan in which provider i is the first to return a
\* credential, no earlier provider having failed, returns that credential
\* and a nil error, and when it returns the cache maps the host to i.
C9_ScanSuccess ==
    (/\ Returned /\ Uncached(ret) /\ ret.results # << >>
     /\ ret.results[Len(ret.results)].cred # EmptyCredential
     /\ ret.results[Len(ret.results)].err = NilErr) =>
        /\ ret.cred = ret.results[Len(ret.results)].cred
        /\ ret.err = NilErr
        /\ CredentialsFuncsCache[ret.reg] = ret.invoked[Len(ret.invoked)]

\* C11 (duplicate concurrent scans): the lookup of host h and the store under
\* h of one call are atomic with respect to the other calls: when a call
\* stores its function under h, h still has no entry, as the call found at its
\* lookup.  The statement is for the executions in which no access to the map
\* has overlapped a store.
C11_AtomicCheckThenWrite ==
    [][\A g \in Procs :
          (~overlap /\ Writing(g) /\ ~Writing(g)') =>
              CredentialsFuncsCache[call[g].reg] = NoFunc]_vars

\* The calls of Login a call that found no entry has made when it leaves the
\* closure, or stores.
LoginsDue == IF AutoLoginHandler THEN 1 ELSE 0

\* C12 (auto-login ordering): a call that found no entry for its host and has
\* a handler stands at the call of Login before it has invoked any provider;
\* when it stores or returns it has called Login exactly once; a call on the
\* cached path, and every call of a client without handler, calls no Login.
C12_LoginOrdering ==
    /\ \A g \in Procs :
           LET c == call[g]
           IN  /\ c.pc = "login" => (AutoLoginHandler /\ c.logins = 0 /\ c.invoked = << >>)
               /\ c.pc = "scan" => (c.logins = LoginsDue /\ c.invoked = << >>)
               /\ c.pc \in {"store", "writing"} => c.logins = LoginsDue
               /\ c.pc = "cached" => c.logins = 0
    /\ Returned =>
           /\ ret.logins = IF Uncached(ret) THEN LoginsDue ELSE 0
           /\ (ret.loginErr # NilErr) => ret.invoked = << >>

\* The third call of a client with a handler, after calls that left the
\* cache empty: it called Login again, then the two providers, and returns
\* no credential.
C12_Witness ==
    /\ Returned /\ AutoLoginHandler /\ Uncached(ret)
    /\ calls = 3
    /\ \A h \in Hosts : CredentialsFuncsCache[h] = NoFunc /\ succeeded[h] = {}
    /\ \A g \in Procs : call[g].pc = "idle"
    /\ ret.logins = 1 /\ ret.loginErr = NilErr
    /\ ret.invoked = <<1, 2>>
    /\ ret.cred = EmptyCredential /\ ret.err = NilErr

\* No provider occurs twice among the providers the call invoked.
NoRetry(c) ==
    \A j, k \in 1..Len(c.invoked) : c.invoked[j] = c.invoked[k] => j = k

\* C13 (errors unchanged, no retry): the error a call returns is the error
\* Login returned, or the error the last provider it invoked returned; on the
\* login and scan paths the credential returned with an error is the empty
\* one; and no call invokes Login or one provider more than once.
C13_ErrorsUnchanged ==
    /\ Returned =>
           /\ ret.logins <= 1 /\ NoRetry(ret)
           /\ ret.err # NilErr =>
                  /\ \/ ret.logins = 1 /\ ret.invoked = << >> /\ ret.err = ret.loginErr
                     \/ /\ ret.invoked # << >> /\ ret.loginErr = NilErr
                        /\ ret.err = ret.results[Len(ret.results)].err
                  /\ Uncached(ret) => ret.cred = EmptyCredential
    /\ \A g \in Procs : call[g].logins <= 1 /\ NoRetry(call[g])

\* The third provider of a scan failed, with a credential in its result, after
\* Login and two providers that had none; the call returns that error and
\* the empty credential.
C13_Witness ==
    /\ Returned /\ Uncached(ret)
    /\ ret.logins = 1 /\ ret.loginErr = NilErr
    /\ ret.invoked = <<1, 2, 3>>
    /\ ret.results[3] = Result(TokenCred, ErrProvider)
    /\ ret.err = ErrProvider /\ ret.cred = EmptyCredential

\* The function a provider option adds to the list.
Provides(o) == IF o = "WithCredentials" THEN StaticKind ELSE FuncKind

\* C14 (option order is provider precedence): NewClient applies its options
\* from left to right; a provider option appends one function at the end of
\* the provider list and changes no other field, and an option that is no
\* provider option sets its field and leaves the list as it is; nothing else
\* changes the list.  A scan that returns a credential has it from the first
\* provider of the list that had one, and stores that provider.
C14_OptionOrder ==
    [][/\ (options' # options) =>
             LET o == Head(options)
             IN  /\ options' = Tail(options)
                 /\ CredentialsFuncs' =
                        IF o \in ProviderOptions
                        THEN Append(CredentialsFuncs, Provides(o))
                        ELSE CredentialsFuncs
                 /\ AutoLoginHandler' = (AutoLoginHandler \/ o = "WithAutoLogin")
                 /\ ClientTokenCache' =
                        IF o = "WithClientTokenCache" THEN TokenCache ELSE ClientTokenCache
                 /\ Insecure' = (Insecure \/ o = "WithInsecure")
       /\ (options' = options) => CredentialsFuncs' = CredentialsFuncs
       /\ \A g \in Procs :
             (call'[g].pc = "store" /\ call[g].pc # "store") =>
                 /\ call'[g].cred = call'[g].results[call'[g].idx].cred
                 /\ \A j \in 1..(call'[g].idx - 1) : call'[g].results[j] = NoCredential]_vars

\* NewClient(WithStore(s), WithAutoLogin(l), WithCredentials(&c)): the list is
\* the function of the store, then the static one; both had a credential in
\* the scans for the host, and the call that returned used the first.
C14_Witness ==
    /\ authClient.built /\ AutoLoginHandler
    /\ CredentialsFuncs = <<FuncKind, StaticKind>>
    /\ Returned /\ Uncached(ret)
    /\ ret.invoked = <<1>> /\ ret.cred = TokenCred
    /\ succeeded[ret.reg] = {1, 2}

\* C15 (configuration read-only after construction): once NewClient has
\* returned the client, no step changes the provider list, the auto-login
\* handler, the token cache, the insecure flag or the client built from them;
\* of the Options value the calls of Credential change the map only.
C15_ConfigReadOnly ==
    [][authClient.built =>
          /\ config' = config
          /\ authClient' = authClient
          /\ options' = options]_vars

\* A call of a client with every field set has stored its provider and
\* returned; calls before it ended in an error and in no credential.
C15_Witness ==
    /\ authClient.built
    /\ AutoLoginHandler /\ Insecure /\ ClientTokenCache = TokenCache
    /\ CredentialsFuncs = <<FuncKind>>
    /\ calls = 3
    /\ Returned /\ ret.writes = 1
    /\ CredentialsFuncsCache[ret.reg] = 1

\* C16 (insecure transport is opt-in): opt.Insecure is false before the
\* options are applied and is set by the option WithInsecure and by nothing
\* else, and the transport of the client NewClient returns skips the
\* verification of certificates exactly if opt.Insecure is set.
C16_InsecureOptIn ==
    /\ ~Insecure
    /\ [][/\ Insecure' = (Insecure \/ (options' # options /\ Head(options) = "WithInsecure"))
          /\ authClient'.built => authClient'.InsecureSkipVerify = Insecure']_vars

\* NewClient(WithCredentials(&c), WithInsecure(), WithStore(s)) has returned a
\* client that skips the verification.
C16_Witness ==
    /\ authClient.built /\ authClient.InsecureSkipVerify
    /\ CredentialsFuncs = <<StaticKind, FuncKind>>
    /\ ~AutoLoginHandler /\ ClientTokenCache = NoCache

\* C17 (per-host frame): the entry of a host h changes only in the store of a
\* call for h, and to the function that call found for h; so the calls for
\* the other hosts have no part in what the later calls for h invoke.
C17_PerHostFrame ==
    [][\A h \in Hosts :
          (CredentialsFuncsCache'[h] # CredentialsFuncsCache[h]) =>
              \E g \in Procs :
                  /\ Writing(g) /\ ~Writing(g)'
                  /\ call[g].reg = h
                  /\ CredentialsFuncsCache'[h] = call[g].idx]_vars

\* C18 (sticky cache entry): only a call that found no entry for its host
\* stores into the map; and as long as no two calls for host h have been in
\* flight at once, an entry of h, once written, is neither overwritten nor
\* removed.
C18_StickyEntry ==
    [][/\ \A g \in Procs : Writing(g)' => Uncached(call'[g])
       /\ \A h \in Hosts :
             (h \notin concurrent' /\ CredentialsFuncsCache[h] # NoFunc) =>
                 /\ CredentialsFuncsCache'[h] = CredentialsFuncsCache[h]
                 /\ \A g \in Procs : ~(Writing(g)' /\ call'[g].reg = h)]_vars

\* The steps of the call of goroutine g.
Step(g) == Resolve(g) \/ StoreBegin(g) \/ Store(g)

\* How far a call has come.
Rank(pc) ==
    CASE pc \in {"cached", "login", "scan"} -> 1
      [] pc = "store" -> 2
      [] pc = "writing" -> 3
      [] pc = "idle" -> 4

\* C19 (bounded work and termination): a call that found no entry calls Login
\* at most once and at most as many providers as are configured; a call on
\* the cached path calls one provider and no Login.  A call that has not
\* returned can take a step as long as the program runs, and each of its
\* steps takes it further, the fourth at the latest to its return.
C19_BoundedWork ==
    /\ [](/\ \A g \in Procs :
               LET c == call[g]
               IN  /\ c.logins <= 1 /\ Len(c.invoked) <= Len(CredentialsFuncs)
                   /\ (c.pc # "idle" /\ ~crashed) => ENABLED Step(g)
          /\ Returned =>
               IF Uncached(ret)
               THEN ret.logins <= 1 /\ Len(ret.invoked) <= Len(CredentialsFuncs)
               ELSE ret.logins = 0 /\ Len(ret.invoked) = 1)
    /\ [][\A g \in Procs :
             (call[g].pc # "idle" /\ call'[g].pc # call[g].pc) =>
                 Rank(call'[g].pc) > Rank(call[g].pc)]_vars

\* A call of a client with a handler and three providers has called Login
\* and every provider, and has returned the credential of the last one.
C19_Witness ==
    /\ Returned /\ Uncached(ret)
    /\ Len(CredentialsFuncs) = 3
    /\ ret.logins = 1 /\ ret.invoked = <<1, 2, 3>>
    /\ ret.writes = 1 /\ ret.cred # EmptyCredential

====
